---- MODULE Spec2Model ----
(***************************************************************************)
(* Ofgem publication monitor (ofgem-poll.js): a poller that fetches the    *)
(* latest publication (API with retries, then a scraping fallback),        *)
(* compares it with the single item kept in the state file, sends an e-mail *)
(* for a new item whose title holds a target keyword, and saves the item.  *)
(*                                                                         *)
(* Strings are sequences of one-character strings, so that concatenation,  *)
(* lower-casing, substring search and JSON text are computed, not assumed. *)
(***************************************************************************)
EXTENDS Integers, Sequences, FiniteSets, TLC

\* ------------------------------------------------------------- bounds ----
\* Number of pollForUpdates invocations that may be in flight at once.
MaxInFlight == 2

\* ---------------------------------------------------- program constants --
\* CONFIG.maxRetries
maxRetries == 3
\* CONFIG.rateLimitDelay (ms)
rateLimitDelay == 2000

\* ------------------------------------------------------------ strings ----
\* JavaScript null (records of other shapes are objects).
Null == [null |-> TRUE]
\* A property that an object does not have; no string of characters equals it.
Undefined == <<"<undefined>">>
\* The outcome of an evaluation that threw.
Thrown == [threw |-> TRUE]

RECURSIVE Includes(_, _)
\* String.prototype.includes: needle occurs in hay as a contiguous run.
Includes(hay, needle) ==
  IF Len(hay) < Len(needle) THEN FALSE
  ELSE IF SubSeq(hay, 1, Len(needle)) = needle THEN TRUE
  ELSE Includes(Tail(hay), needle)

\* Upper-case letters and their lower-case forms, position by position.
UpperLetters ==
  <<"A","B","C","D","E","F","G","H","I","J","K","L","M",
    "N","O","P","Q","R","S","T","U","V","W","X","Y","Z">>
LowerLetters ==
  <<"a","b","c","d","e","f","g","h","i","j","k","l","m",
    "n","o","p","q","r","s","t","u","v","w","x","y","z">>

LowerChar(ch) ==
  IF \E i \in 1..Len(UpperLetters) : UpperLetters[i] = ch
  THEN LowerLetters[CHOOSE i \in 1..Len(UpperLetters) : UpperLetters[i] = ch]
  ELSE ch

\* String.prototype.toLowerCase
ToLowerCase(s) == [i \in 1..Len(s) |-> LowerChar(s[i])]

RECURSIVE Trim(_)
\* String.prototype.trim (spaces and newlines are the white space modelled)
Trim(s) ==
  IF s = <<>> THEN s
  ELSE IF Head(s) \in {" ", "\n"} THEN Trim(Tail(s))
  ELSE IF s[Len(s)] \in {" ", "\n"} THEN Trim(SubSeq(s, 1, Len(s) - 1))
  ELSE s

\* --------------------------------------------------------------- JSON ----
Str_title == <<"t","i","t","l","e">>
Str_link == <<"l","i","n","k">>
Str_date == <<"d","a","t","e">>

RECURSIVE JSONEscape_NoBackslash(_)
\* Mutant: a backslash is written as it is.
JSONEscape_NoBackslash(s) ==
  IF s = <<>> THEN <<>>
  ELSE (CASE Head(s) = "\"" -> <<"\\", "\"">>
          [] Head(s) = "\n" -> <<"\\", "n">>
          [] OTHER -> <<Head(s)>>) \o JSONEscape_NoBackslash(Tail(s))

RECURSIVE JSONEscape(_)
\* The characters of a string as JSON.stringify writes them between quotes.
JSONEscape(s) ==
  IF s = <<>> THEN <<>>
  ELSE (CASE Head(s) = "\"" -> <<"\\", "\"">>
          [] Head(s) = "\\" -> <<"\\", "\\">>
          [] Head(s) = "\n" -> <<"\\", "n">>
          [] OTHER -> <<Head(s)>>) \o JSONEscape(Tail(s))

JSONQuote(s) == <<"\"">> \o JSONEscape(s) \o <<"\"">>

\* One member line of JSON.stringify(data, null, 2): two spaces, "key": "value"
JSONMember(key, val) == <<" ", " ">> \o JSONQuote(key) \o <<":", " ">> \o JSONQuote(val)

\* JSON.stringify(data, null, 2) of a publication {title, link, date}
JSONStringify(data) ==
  <<"{", "\n">> \o JSONMember(Str_title, data.title) \o <<",", "\n">>
               \o JSONMember(Str_link, data.link) \o <<",", "\n">>
               \o JSONMember(Str_date, data.date) \o <<"\n", "}">>

ParseFail == [ok |-> FALSE]

RECURSIVE SkipWs(_)
SkipWs(t) == IF t # <<>> /\ Head(t) \in {" ", "\n"} THEN SkipWs(Tail(t)) ELSE t

RECURSIVE ParseStringBody(_, _)
\* t follows an opening quote; acc is the string read so far.
ParseStringBody(t, acc) ==
  IF t = <<>> THEN ParseFail
  ELSE IF Head(t) = "\"" THEN [ok |-> TRUE, val |-> acc, rest |-> Tail(t)]
  ELSE IF Head(t) = "\n" THEN ParseFail
  ELSE IF Head(t) = "\\"
    THEN IF Len(t) < 2 THEN ParseFail
         ELSE IF t[2] \in {"\"", "\\", "/"}
           THEN ParseStringBody(SubSeq(t, 3, Len(t)), Append(acc, t[2]))
         ELSE IF t[2] = "n"
           THEN ParseStringBody(SubSeq(t, 3, Len(t)), Append(acc, "\n"))
         ELSE ParseFail
  ELSE ParseStringBody(Tail(t), Append(acc, Head(t)))

ParseString(t) ==
  IF t # <<>> /\ Head(t) = "\"" THEN ParseStringBody(Tail(t), <<>>) ELSE ParseFail

RECURSIVE ParseMembers(_, _)
\* t starts at a member's key; members is the sequence of <<key, value>> read.
ParseMembers(t, members) ==
  LET k == ParseString(t) IN
  IF ~k.ok THEN ParseFail
  ELSE LET afterKey == SkipWs(k.rest) IN
    IF afterKey = <<>> \/ Head(afterKey) # ":" THEN ParseFail
    ELSE LET v == ParseString(SkipWs(Tail(afterKey))) IN
      IF ~v.ok THEN ParseFail
      ELSE LET afterVal == SkipWs(v.rest)
               got == Append(members, <<k.val, v.val>>) IN
        IF afterVal = <<>> THEN ParseFail
        ELSE IF Head(afterVal) = "}"
          THEN [ok |-> TRUE, val |-> got, rest |-> Tail(afterVal)]
        ELSE IF Head(afterVal) = ","
          THEN ParseMembers(SkipWs(Tail(afterVal)), got)
        ELSE ParseFail

ParseObject(t) ==
  IF t = <<>> \/ Head(t) # "{" THEN ParseFail
  ELSE LET inner == SkipWs(Tail(t)) IN
    IF inner # <<>> /\ Head(inner) = "}"
    THEN [ok |-> TRUE, val |-> <<>>, rest |-> Tail(inner)]
    ELSE ParseMembers(inner, <<>>)

\* obj[key] of a parsed object (the last member of that name wins)
GetProperty(members, key) ==
  LET hits == {i \in 1..Len(members) : members[i][1] = key} IN
  IF hits = {} THEN Undefined
  ELSE members[CHOOSE i \in hits : \A j \in hits : j <= i][2]

\* JSON.parse of the text of a state file: the object it denotes, seen through
\* the three properties the program reads, or Thrown for a SyntaxError.  The
\* texts covered are JSON objects whose members are strings; the state file
\* only ever holds what saveState wrote, whole or cut short.
JSONParse(text) ==
  LET r == ParseObject(SkipWs(text)) IN
  IF r.ok /\ SkipWs(r.rest) = <<>>
  THEN [title |-> GetProperty(r.val, Str_title),
        link |-> GetProperty(r.val, Str_link),
        date |-> GetProperty(r.val, Str_date)]
  ELSE Thrown

\* ------------------------------------------------------- publications ----
\* 'https://www.ofgem.gov.uk', the prefix parsePublicationFromMarkup puts
\* before an href and the origin the browser resolves relative hrefs against.
SiteOrigin ==
  <<"h","t","t","p","s",":","/","/","w","w","w",".","o","f","g","e","m",
    ".","g","o","v",".","u","k">>

Str_Unknown == <<"U","n","k","n","o","w","n">>
Str_undefined == <<"u","n","d","e","f","i","n","e","d">>

\* What a regular expression yields when it does not match.
NoMatch == <<"<no match>">>

Title_Tomato == <<"T","o","m","a","t","o">>
Title_Quoted == <<"a","\"","\\">>
Path_1 == <<"/","p","1">>
Path_2 == <<"/","p","2">>
Date_1 == <<"1"," ","M","a","y">>
Date_2 == <<"2"," ","M","a","y">>

\* The markup of the first item of an API response, seen through what the
\* three regular expressions of parsePublicationFromMarkup capture from it
\* once its entities are decoded.
Markups ==
  { [title |-> <<" ">> \o Title_Quoted, href |-> Path_1, date |-> Date_1],
    [title |-> Title_Quoted, href |-> Path_1, date |-> Date_2],
    [title |-> Title_Quoted, href |-> Path_2, date |-> Date_1],
    [title |-> Title_Tomato, href |-> Path_1, date |-> NoMatch],
    [title |-> <<" ">>, href |-> Path_1, date |-> Date_1],
    [title |-> Title_Tomato, href |-> NoMatch, date |-> Date_1] }

\* Mutant: only the link is checked (if (!link) return null).
parsePublicationFromMarkup_NoTitleCheck(markup) ==
  LET title == IF markup.title # NoMatch THEN Trim(markup.title) ELSE <<>>
      hasLink == markup.href # NoMatch
      date == IF markup.date # NoMatch THEN Trim(markup.date) ELSE Str_Unknown
  IN IF ~hasLink THEN Null
     ELSE [title |-> title, link |-> SiteOrigin \o markup.href, date |-> date]

\* parsePublicationFromMarkup (the entity decoding and the matching are in
\* the captures): title and link or null.
parsePublicationFromMarkup(markup) ==
  LET title == IF markup.title # NoMatch THEN Trim(markup.title) ELSE <<>>
      hasLink == markup.href # NoMatch
      date == IF markup.date # NoMatch THEN Trim(markup.date) ELSE Str_Unknown
  IN IF title = <<>> \/ ~hasLink THEN Null
     ELSE [title |-> title, link |-> SiteOrigin \o markup.href, date |-> date]

\* What one call of fetch(CONFIG.apiUrl) and response.json() can come to.
ApiResponses ==
  { [kind |-> k, markup |-> [title |-> NoMatch, href |-> NoMatch, date |-> NoMatch]] :
      k \in {"abort", "network", "status", "notjson", "noitems", "nomarkup"} }
  \cup { [kind |-> "items", markup |-> m] : m \in Markups }

\* fetchLatestPublicationViaAPI on a response: every failure is caught and
\* gives null.
fetchLatestPublicationViaAPI(resp) ==
  IF resp.kind # "items" THEN Null ELSE parsePublicationFromMarkup(resp.markup)

\* The first <article> of the rendered page, seen through the three values
\* the page function reads: a.href (absolute, resolved by the browser),
\* the text of h3 span span, and the text of the time element.
Articles ==
  { [href |-> SiteOrigin \o Path_1, title |-> Title_Quoted, date |-> Date_1],
    [href |-> SiteOrigin \o Path_2, title |-> Title_Quoted, date |-> Date_1],
    [href |-> SiteOrigin \o Path_1, title |-> Title_Tomato, date |-> Undefined],
    [href |-> Undefined, title |-> Title_Tomato, date |-> Date_1],
    [href |-> SiteOrigin \o Path_1, title |-> <<" ">>, date |-> Date_1] }

\* The page function of page.$eval('article', ...)
EvalArticle(article) ==
  LET link == article.href
      title == IF article.title = Undefined THEN Undefined ELSE Trim(article.title)
      date == IF article.date = Undefined THEN Undefined ELSE Trim(article.date)
  IN IF title \notin {Undefined, <<>>} /\ link \notin {Undefined, <<>>}
     THEN [title |-> title, link |-> link,
           date |-> IF date \in {Undefined, <<>>} THEN Str_Unknown ELSE date]
     ELSE Null

\* What newPage, goto, waitForSelector and $eval can come to inside the try
\* block of fetchLatestPublicationViaScraping.
PageOutcomes ==
  { [kind |-> k, article |-> [href |-> Undefined, title |-> Undefined, date |-> Undefined]] :
      k \in {"newPageError", "gotoTimeout", "selectorTimeout", "evalError"} }
  \cup { [kind |-> "article", article |-> a] : a \in Articles }

\* The value the try block of fetchLatestPublicationViaScraping returns.
ScrapeResult(outcome) ==
  IF outcome.kind = "article" THEN EvalArticle(outcome.article) ELSE Null

\* -------------------------------------------------------- state store ----
\* The state file does not exist.
Absent == <<"<absent>">>

\* How fs.writeFileSync can end: the whole text written; the open refused
\* (the file is untouched); the file truncated by the open and the write cut
\* short (nothing, or the first characters of the text, is in the file).
WriteOutcomes == {"ok", "EACCES", "ENOSPC0", "ENOSPC1"}

\* Characters that reach the file when a write is cut short after some.
PartialLen == 9

\* The publications the two channels can return.
Publications ==
  ({parsePublicationFromMarkup(m) : m \in Markups}
     \cup {EvalArticle(a) : a \in Articles}) \ {Null}

\* JSON.stringify and JSON.parse, evaluated once for the publications above
\* and for the texts saveState can leave for them, and on demand otherwise.
StringifyTable == [p \in Publications |-> JSONStringify(p)]

StringifyOf(data) ==
  IF data \in DOMAIN StringifyTable THEN StringifyTable[data] ELSE JSONStringify(data)

StateTexts ==
  {<<>>} \cup {StringifyTable[p] : p \in Publications}
         \cup {SubSeq(StringifyTable[p], 1, PartialLen) : p \in Publications}

ParseTable == {<<t, JSONParse(t)>> : t \in StateTexts}

ParseOf(text) ==
  IF text \in StateTexts
  THEN (CHOOSE entry \in ParseTable : entry[1] = text)[2]
  ELSE JSONParse(text)

\* Mutant: no try/catch around the read and the parse.
loadState_NoCatch(f, readError) ==
  IF f = Absent THEN Null
  ELSE IF readError THEN Thrown ELSE ParseOf(f)

\* loadState: the object in the state file, or null when the file is absent,
\* cannot be read, or does not parse (the catch block).
loadState(f, readError) ==
  IF f = Absent THEN Null
  ELSE LET parsed == IF readError THEN Thrown ELSE ParseOf(f)
       IN IF parsed = Thrown THEN Null ELSE parsed

\* The text in the state file after saveState(data); saveState never throws.
saveState(f, data, outcome) ==
  LET text == StringifyOf(data)
  IN CASE outcome = "ok" -> text
       [] outcome = "EACCES" -> f
       [] outcome = "ENOSPC0" -> <<>>
       [] outcome = "ENOSPC1" -> SubSeq(text, 1, PartialLen)

\* ---------------------------------------------------- change detection ---
\* `${v}` of a template literal
TemplateText(v) == IF v = Undefined THEN Str_undefined ELSE v

\* Mutant: the date is part of the identity key.
IdentityKey_WithDate(publication) ==
  TemplateText(publication.title) \o <<"|">> \o TemplateText(publication.link)
    \o <<"|">> \o TemplateText(publication.date)

\* Mutant: the title alone is the identity key.
IdentityKey_TitleOnly(publication) == TemplateText(publication.title)

\* `${publication.title}|${publication.link}`
IdentityKey(publication) ==
  TemplateText(publication.title) \o <<"|">> \o TemplateText(publication.link)

\* Mutant: an absent previous state is not a difference
\* (previousId && currentId !== previousId).
IsNewPublication_NotOnFirstRun(latestPublication, previousPublication) ==
  IF previousPublication = Null THEN FALSE
  ELSE IdentityKey(latestPublication) # IdentityKey(previousPublication)

\* Mutant: the objects are compared, not their identity keys
\* (latestPublication !== previousPublication).
IsNewPublication_ByReference(latestPublication, previousPublication) == TRUE

\* currentId !== previousId, where previousId is null when previousPublication
\* is null (a string is never identical to null).
IsNewPublication(latestPublication, previousPublication) ==
  IF previousPublication = Null THEN TRUE
  ELSE IdentityKey(latestPublication) # IdentityKey(previousPublication)

Keywords ==
  { <<"t","o","m","a","t","o">>, <<"s","e","n","a","p","t">>,
    <<"l","o","g","i","c","o","r">> }

\* Mutant: the title is searched as it is, without toLowerCase().
HasTargetKeyword_CaseSensitive(title) == \E k \in Keywords : Includes(title, k)

\* Mutant: all three keywords are required (&& for ||).
HasTargetKeyword_All(title) ==
  LET titleLower == ToLowerCase(title)
  IN \A k \in Keywords : Includes(titleLower, k)

\* hasTomato || hasSenapt || hasLogicor
HasTargetKeyword(title) ==
  LET titleLower == ToLowerCase(title)
  IN \E k \in Keywords : Includes(titleLower, k)

\* ------------------------------------------------------ configuration ----
RECURSIVE Split(_, _)
\* String.prototype.split(sep) for a one-character separator
Split(s, sep) ==
  IF \A i \in 1..Len(s) : s[i] # sep THEN <<s>>
  ELSE LET i == CHOOSE j \in 1..Len(s) : s[j] = sep /\ \A k \in 1..(j-1) : s[k] # sep
       IN <<SubSeq(s, 1, i - 1)>> \o Split(SubSeq(s, i + 1, Len(s)), sep)

\* A string or undefined taken as a condition
Truthy(v) == v # Undefined /\ v # <<>>

\* The ENV object built from process.env
EnvOf(penv) ==
  [resendApiKey |-> penv.RESEND_API_KEY,
   notifyEmails |->
     IF Truthy(penv.NOTIFY_EMAILS)
     THEN LET parts == Split(penv.NOTIFY_EMAILS, ",")
          IN [i \in 1..Len(parts) |-> Trim(parts[i])]
     ELSE <<>>,
   senderEmail |-> penv.SENDER_EMAIL]

\* Mutant: the sender address is not checked.
ConfigValid_NoSender(E) ==
  ~(~Truthy(E.resendApiKey) \/ Len(E.notifyEmails) = 0)

\* The negation of the condition under which the script calls process.exit(1)
ConfigValid(E) ==
  ~(~Truthy(E.resendApiKey) \/ Len(E.notifyEmails) = 0 \/ ~Truthy(E.senderEmail))

\* The environments the process is started in.
Environments ==
  { [RESEND_API_KEY |-> <<"k">>, NOTIFY_EMAILS |-> <<"a", ",", " ", "b">>,
     SENDER_EMAIL |-> <<"s">>],
    [RESEND_API_KEY |-> Undefined, NOTIFY_EMAILS |-> <<"a">>,
     SENDER_EMAIL |-> <<"s">>],
    [RESEND_API_KEY |-> <<"k">>, NOTIFY_EMAILS |-> Undefined,
     SENDER_EMAIL |-> <<"s">>],
    [RESEND_API_KEY |-> <<"k">>, NOTIFY_EMAILS |-> <<"a">>,
     SENDER_EMAIL |-> <<>>] }

\* -------------------------------------------------------------- state ----
VARIABLES
  proc,       \* "starting", "running" or "exited"
  exitCode,   \* the code given to process.exit, -1 while the process lives
  env,        \* process.env
  timerArmed, \* the setInterval timer (pollInterval) is active
  file,       \* the text of CONFIG.stateFile, or Absent
  cycles,     \* the pollForUpdates invocations in flight, by slot
  notified,   \* identity keys sendNotification has been called for
  last        \* what the latest step of a pollForUpdates invocation called

vars == <<proc, exitCode, env, timerArmed, file, cycles, notified, last>>

Slots == 1..MaxInFlight

\* Where an invocation of pollForUpdates is suspended.
\*   "api"    awaiting fetch(CONFIG.apiUrl) in fetchLatestPublicationViaAPI,
\*            the abort timer armed
\*   "body"   awaiting response.json(), the abort timer cleared
\*   "delay"  awaiting the setTimeout promise between API attempts
\*   "launch" awaiting puppeteer.launch
\*   "page"   awaiting newPage / goto / waitForSelector / $eval
\*   "close"  awaiting browser.close() in the finally block
\*   "send"   awaiting resend.emails.send in sendNotification; delivered
\*            tells whether the service has sent the e-mail
FetchPcs == {"api", "body", "delay", "launch", "page", "close"}

\* No invocation in the slot.
Idle ==
  [pc |-> "idle", attempt |-> 0, apiCalls |-> 0, apiFails |-> 0,
   scrapeCalls |-> 0, delay |-> 0, browserOpen |-> FALSE,
   ret |-> Null, pub |-> Null, delivered |-> FALSE]

\* A function that was not called in the step.
NotCalled == [called |-> FALSE]

\* What a step of a pollForUpdates invocation called, and with what result:
\*   op      "poll": fetchLatestPublication settled and pollForUpdates ran on
\*           to its next await or its end; "send": sendNotification settled
\*           and pollForUpdates ran to its end; "timer": the interval
\*           timer called pollForUpdates; the signal or process event
\*           whose handler called shutdown(); "none": none of these
\*   scraped the value fetchLatestPublicationViaScraping settled with
\*   pub     the value fetchLatestPublication settled with ("poll"), the
\*           latestPublication of the invocation ("send")
\*   loaded  the value loadState returned
\*   sent    the number of calls of sendNotification
\*   resent  sendNotification was called for an identity key it had been
\*           called for before
\*   saved   the argument of saveState, wrote how its write ended
\*   delivery how resend.emails.send settled
\*   input   the markup parsePublicationFromMarkup was called with, when the
\*           function is run on its own
\*   caught  the catch block of pollForUpdates ran
\*   browser the browser of the fetchLatestPublicationViaScraping call that
\*           settled in the step, once browser.close() has settled: "closed"
\*           or "open"; "none" when no browser.close() settled
\* NoCalls is a step that called none of them.
NoCalls ==
  [op |-> "none", scraped |-> NotCalled, pub |-> NotCalled, loaded |-> NotCalled,
   sent |-> 0, resent |-> FALSE, saved |-> NotCalled, wrote |-> "none",
   delivery |-> "none", caught |-> FALSE, input |-> NotCalled,
   browser |-> "none"]

Init ==
  /\ proc = "starting"
  /\ exitCode = -1
  /\ env \in Environments
  /\ timerArmed = FALSE
  /\ file \in {Absent} \cup StateTexts
  /\ cycles = [c \in Slots |-> Idle]
  /\ notified = {}
  /\ last = NoCalls

\* pollForUpdates up to its first await: fetchLatestPublication calls
\* fetchLatestPublicationViaAPI, which issues the request.
StartCycle(c) ==
  cycles' = [cycles EXCEPT ![c] = [Idle EXCEPT !.pc = "api", !.apiCalls = 1]]

LowestIdle == CHOOSE c \in Slots : cycles[c].pc = "idle" /\ \A d \in Slots : cycles[d].pc = "idle" => c <= d

\* The catch block of pollForUpdates: the invocation ends.  rec is what the
\* step had called when the exception was thrown.
OnThrown(c, rec) ==
  /\ cycles' = [cycles EXCEPT ![c] = Idle]
  /\ last' = [rec EXCEPT !.caught = TRUE]
  /\ UNCHANGED <<file, notified>>

\* Mutant: no return when latestPublication is null; loadState is called and
\* latestPublication.title throws a TypeError.
OnNoPublication_FallsThrough(c, rec) ==
  \E previousPublication \in
       {loadState(file, readError) :
          readError \in (IF file = Absent THEN {FALSE} ELSE BOOLEAN)} :
    OnThrown(c, [rec EXCEPT !.loaded = previousPublication])

\* if (!latestPublication) return
OnNoPublication(c, rec) ==
  /\ cycles' = [cycles EXCEPT ![c] = Idle]
  /\ last' = rec
  /\ UNCHANGED <<file, notified>>

\* Mutant: saveState is called before sendNotification is awaited.
OnKeyword_SavesFirst(c, rec, publication) ==
  \E outcome \in WriteOutcomes :
    /\ cycles' = [cycles EXCEPT ![c] = [Idle EXCEPT !.pc = "send", !.pub = publication]]
    /\ notified' = notified \cup {IdentityKey(publication)}
    /\ file' = saveState(file, publication, outcome)
    /\ last' = [rec EXCEPT !.sent = 1,
                  !.resent = (IdentityKey(publication) \in notified),
                  !.saved = publication, !.wrote = outcome]

\* The branch of a new publication with a keyword in its title, up to the
\* await of sendNotification (resend.emails.send is called).
OnKeyword(c, rec, publication) ==
  /\ cycles' = [cycles EXCEPT ![c] = [Idle EXCEPT !.pc = "send", !.pub = publication]]
  /\ notified' = notified \cup {IdentityKey(publication)}
  /\ last' = [rec EXCEPT !.sent = 1,
                !.resent = (IdentityKey(publication) \in notified)]
  /\ UNCHANGED file

\* The branch of a new publication without keyword: saveState only.
OnNoKeyword(c, rec, publication) ==
  \E outcome \in WriteOutcomes :
    /\ cycles' = [cycles EXCEPT ![c] = Idle]
    /\ file' = saveState(file, publication, outcome)
    /\ last' = [rec EXCEPT !.saved = publication, !.wrote = outcome]
    /\ UNCHANGED notified

\* A step in which fetchLatestPublication settles with `publication`, before
\* pollForUpdates has called anything.  scraped is what
\* fetchLatestPublicationViaScraping settled with, NotCalled when it was not
\* called; browser is the state its browser is left in.
FetchSettled(scraped, publication, browser) ==
  [NoCalls EXCEPT !.op = "poll", !.scraped = scraped, !.pub = publication,
                  !.browser = browser]

\* pollForUpdates from the point where fetchLatestPublication has settled
\* with `publication` (an object, null, or Thrown for a rejection) to its
\* next await or its end.
PollAfterSettled(c, base, publication) ==
  IF publication = Thrown THEN OnThrown(c, base)
  ELSE IF publication = Null THEN OnNoPublication(c, base)
  ELSE
    \E previousPublication \in
         {loadState(file, readError) :
            readError \in (IF file = Absent THEN {FALSE} ELSE BOOLEAN)} :
      LET loadedRec == [base EXCEPT !.loaded = previousPublication]
      IN
      IF previousPublication = Thrown THEN OnThrown(c, loadedRec)
      ELSE IF IsNewPublication(publication, previousPublication)
        THEN IF HasTargetKeyword(publication.title)
               THEN OnKeyword(c, loadedRec, publication)
               ELSE OnNoKeyword(c, loadedRec, publication)
      ELSE /\ cycles' = [cycles EXCEPT ![c] = Idle]
           /\ last' = loadedRec
           /\ UNCHANGED <<file, notified>>

\* PollAfterSettled for a fetch that settles with no browser.close() in the
\* step.
PollAfterFetch(c, scraped, publication) ==
  PollAfterSettled(c, FetchSettled(scraped, publication, "none"), publication)

\* ------------------------------------------------------------ actions ----
\* Mutant: the script does not call pollForUpdates() before setInterval.
Main_NoInitialCheck ==
  /\ proc = "starting"
  /\ IF ConfigValid(EnvOf(env))
       THEN /\ proc' = "running"
            /\ timerArmed' = TRUE
            /\ UNCHANGED <<exitCode, cycles>>
       ELSE /\ proc' = "exited"
            /\ exitCode' = 1
            /\ UNCHANGED <<cycles, timerArmed>>
  /\ last' = NoCalls
  /\ UNCHANGED <<env, file, notified>>

\* The script body, run once: the configuration check, then the initial
\* pollForUpdates() and setInterval(pollForUpdates, CONFIG.pollInterval).
Main ==
  /\ proc = "starting"
  /\ IF ConfigValid(EnvOf(env))
       THEN /\ proc' = "running"
            /\ StartCycle(1)
            /\ timerArmed' = TRUE
            /\ UNCHANGED exitCode
       ELSE /\ proc' = "exited"
            /\ exitCode' = 1
            /\ UNCHANGED <<cycles, timerArmed>>
  /\ last' = NoCalls
  /\ UNCHANGED <<env, file, notified>>

\* Mutant: a one-shot timer (setTimeout for setInterval).
TimerFires_OneShot ==
  /\ proc = "running"
  /\ timerArmed
  /\ \E c \in Slots : cycles[c].pc = "idle"
  /\ StartCycle(LowestIdle)
  /\ timerArmed' = FALSE
  /\ last' = [NoCalls EXCEPT !.op = "timer"]
  /\ UNCHANGED <<proc, exitCode, env, file, notified>>

\* The interval timer fires and calls pollForUpdates, whatever the earlier
\* invocations are doing.
TimerFires ==
  /\ proc = "running"
  /\ timerArmed
  /\ \E c \in Slots : cycles[c].pc = "idle"
  /\ StartCycle(LowestIdle)
  /\ last' = [NoCalls EXCEPT !.op = "timer"]
  /\ UNCHANGED <<proc, exitCode, env, timerArmed, file, notified>>

\* Mutant: the loop stops one retry early (< for <=).
LoopContinues_OneShort(attempt) == attempt < maxRetries

\* The condition of the retry loop, for (attempt = 1; attempt <= maxRetries; ..)
LoopContinues(attempt) == attempt <= maxRetries

\* Mutant: the back-off is awaited after the last retry too.
WaitsAfter_Always(attempt) == attempt <= maxRetries

\* if (attempt < CONFIG.maxRetries) await the back-off
WaitsAfter(attempt) == attempt < maxRetries

\* The retry loop of fetchLatestPublication arriving at its condition with
\* `attempt`: another API call, or the loop ends and the scraping fallback
\* starts (puppeteer.launch is called).
EnterLoop(rec, attempt) ==
  IF LoopContinues(attempt)
  THEN [rec EXCEPT !.pc = "api", !.attempt = attempt, !.apiCalls = @ + 1, !.delay = 0]
  ELSE [rec EXCEPT !.pc = "launch", !.attempt = attempt, !.scrapeCalls = @ + 1, !.delay = 0]

\* fetchLatestPublication after an API call returned null.
AfterApiFailure(rec) ==
  LET failed == [rec EXCEPT !.apiFails = @ + 1]
  IN IF rec.attempt = 0
     THEN [failed EXCEPT !.pc = "delay", !.delay = rateLimitDelay]
     ELSE IF WaitsAfter(rec.attempt)
       THEN [failed EXCEPT !.pc = "delay", !.delay = rateLimitDelay * rec.attempt]
       ELSE EnterLoop(failed, rec.attempt + 1)

\* Mutant: the result of the fallback is not assigned to publication.
fetchLatestPublication_DropsFallback(publication, scraped) == publication

\* The value fetchLatestPublication returns: the API publication, or what
\* the scraping fallback returned when there is none.
fetchLatestPublication(publication, scraped) ==
  IF publication = Null THEN scraped ELSE publication

\* The abort timer of fetchLatestPublicationViaAPI is armed: set before
\* fetch is called, cleared as soon as the fetch promise settles, before
\* response.json() is awaited.
AbortTimerArmed(c) == cycles[c].pc = "api"

\* How the fetch(CONFIG.apiUrl) promise settles: aborted by the timer, a
\* transport error, a response that is not ok, or an ok response, whose body
\* is still to come.
FetchOutcomes == {"abort", "network", "status", "ok"}

\* fetch(CONFIG.apiUrl) settles; clearTimeout(timeoutId) follows at once.
ApiResponds(c) ==
  /\ proc = "running"
  /\ cycles[c].pc = "api"
  /\ \E next \in {IF outcome = "ok" THEN [cycles[c] EXCEPT !.pc = "body"]
                   ELSE AfterApiFailure(cycles[c]) : outcome \in FetchOutcomes} :
       cycles' = [cycles EXCEPT ![c] = next]
  /\ last' = NoCalls
  /\ UNCHANGED <<proc, exitCode, env, timerArmed, file, notified>>

\* What fetchLatestPublicationViaAPI returns once fetch has resolved with an
\* ok response.
BodyOutcomes ==
  {fetchLatestPublicationViaAPI(resp) :
     resp \in {r \in ApiResponses : r.kind \notin {"abort", "status"}}}

\* response.json() settles, and fetchLatestPublicationViaAPI returns.
BodyResolves(c) ==
  /\ proc = "running"
  /\ cycles[c].pc = "body"
  /\ \E publication \in BodyOutcomes :
          IF publication # Null
          THEN PollAfterFetch(c, NotCalled, fetchLatestPublication(publication, NotCalled))
          ELSE /\ cycles' = [cycles EXCEPT ![c] = AfterApiFailure(cycles[c])]
               /\ last' = NoCalls
               /\ UNCHANGED <<file, notified>>
  /\ UNCHANGED <<proc, exitCode, env, timerArmed>>

\* The back-off timer of fetchLatestPublication fires.
DelayElapses(c) ==
  /\ proc = "running"
  /\ cycles[c].pc = "delay"
  /\ cycles' = [cycles EXCEPT ![c] = EnterLoop(cycles[c], cycles[c].attempt + 1)]
  /\ last' = NoCalls
  /\ UNCHANGED <<proc, exitCode, env, timerArmed, file, notified>>

\* puppeteer.launch settles; it is awaited outside the try block, so its
\* rejection rejects fetchLatestPublicationViaScraping and, through
\* fetchLatestPublication, reaches the catch block of pollForUpdates.
LaunchResolves(c) ==
  /\ proc = "running"
  /\ cycles[c].pc = "launch"
  /\ \E launched \in BOOLEAN :
       IF launched
       THEN /\ cycles' = [cycles EXCEPT ![c].pc = "page", ![c].browserOpen = TRUE]
            /\ last' = NoCalls
            /\ UNCHANGED <<file, notified>>
       ELSE PollAfterFetch(c, Thrown, Thrown)
  /\ UNCHANGED <<proc, exitCode, env, timerArmed>>

\* What the try and catch blocks of fetchLatestPublicationViaScraping leave to
\* return.
ScrapeResults == {ScrapeResult(outcome) : outcome \in PageOutcomes}

\* The try block of fetchLatestPublicationViaScraping ends, by a return or in
\* its catch block; the finally block calls browser.close().
PageResolves(c) ==
  /\ proc = "running"
  /\ cycles[c].pc = "page"
  /\ \E ret \in ScrapeResults :
       cycles' = [cycles EXCEPT ![c].pc = "close", ![c].ret = ret]
  /\ last' = NoCalls
  /\ UNCHANGED <<proc, exitCode, env, timerArmed, file, notified>>

\* browser.close() settles; its rejection replaces the return value of
\* fetchLatestPublicationViaScraping, and nothing else closes the browser:
\* it is closed or still open.
CloseResolves(c) ==
  /\ proc = "running"
  /\ cycles[c].pc = "close"
  /\ \E closed \in BOOLEAN :
       IF closed
       THEN LET publication == fetchLatestPublication(Null, cycles[c].ret)
            IN PollAfterSettled(c, FetchSettled(cycles[c].ret, publication, "closed"),
                                publication)
       ELSE \E browser \in {"closed", "open"} :
              PollAfterSettled(c, FetchSettled(Thrown, Thrown, browser), Thrown)
  /\ UNCHANGED <<proc, exitCode, env, timerArmed>>

\* The delivery service sends the e-mail; its response is still to come.
DeliveryCompletes(c) ==
  /\ proc = "running"
  /\ cycles[c].pc = "send"
  /\ ~cycles[c].delivered
  /\ cycles' = [cycles EXCEPT ![c].delivered = TRUE]
  /\ last' = NoCalls
  /\ UNCHANGED <<proc, exitCode, env, timerArmed, file, notified>>

\* Mutant: sendNotification has no catch block; a failed delivery reaches
\* the catch block of pollForUpdates and saveState is not called.
SendResolves_FailureSkipsSave(c) ==
  /\ proc = "running"
  /\ cycles[c].pc = "send"
  /\ \E delivery \in (IF cycles[c].delivered THEN {"delivered"} ELSE {"error", "rejected"}),
        outcome \in WriteOutcomes :
       IF delivery = "delivered"
       THEN /\ file' = saveState(file, cycles[c].pub, outcome)
            /\ last' = [NoCalls EXCEPT !.op = "send", !.pub = cycles[c].pub,
                                       !.saved = cycles[c].pub, !.wrote = outcome,
                                       !.delivery = delivery]
       ELSE /\ file' = file
            /\ last' = [NoCalls EXCEPT !.op = "send", !.pub = cycles[c].pub,
                                       !.delivery = delivery, !.caught = TRUE]
  /\ cycles' = [cycles EXCEPT ![c] = Idle]
  /\ UNCHANGED <<proc, exitCode, env, timerArmed, notified>>

\* resend.emails.send settles (delivered, an error object, or a rejection);
\* sendNotification catches every failure, and pollForUpdates goes on to
\* saveState(latestPublication).
SendResolves(c) ==
  /\ proc = "running"
  /\ cycles[c].pc = "send"
  /\ \E delivery \in (IF cycles[c].delivered THEN {"delivered"} ELSE {"error", "rejected"}),
        outcome \in WriteOutcomes :
       /\ file' = saveState(file, cycles[c].pub, outcome)
       /\ last' = [NoCalls EXCEPT !.op = "send", !.pub = cycles[c].pub,
                                  !.saved = cycles[c].pub, !.wrote = outcome,
                                  !.delivery = delivery]
  /\ cycles' = [cycles EXCEPT ![c] = Idle]
  /\ UNCHANGED <<proc, exitCode, env, timerArmed, notified>>

\* Mutant: shutdown() does not clear the interval.
shutdown_NoClear(cause) ==
  /\ proc' = "exited"
  /\ exitCode' = 0
  /\ cycles' = [c \in Slots |-> Idle]
  /\ last' = [NoCalls EXCEPT !.op = cause]
  /\ UNCHANGED <<env, timerArmed, file, notified>>

\* shutdown(): clearInterval(pollInterval) and process.exit(0); the
\* invocations in flight end with the process, wherever they are.  cause is
\* what called it.
shutdown(cause) ==
  /\ proc' = "exited"
  /\ exitCode' = 0
  /\ timerArmed' = FALSE
  /\ cycles' = [c \in Slots |-> Idle]
  /\ last' = [NoCalls EXCEPT !.op = cause]
  /\ UNCHANGED <<env, file, notified>>

\* The signals shutdown is registered for.
Signals == {"SIGINT", "SIGTERM"}

\* The process events whose handlers log and call shutdown().
ErrorEvents == {"uncaughtException", "unhandledRejection"}

\* SIGINT or SIGTERM arrives.
Shutdown ==
  /\ proc = "running"
  /\ \E signal \in Signals : shutdown(signal)

\* An exception no one catches or a rejection no one handles reaches the
\* process (an 'error' event without a listener, such as EPIPE on a closed
\* stdout, or a throw in a callback outside pollForUpdates' try block).
UncaughtError ==
  /\ proc = "running"
  /\ \E event \in ErrorEvents : shutdown(event)

Next ==
  \/ Main
  \/ TimerFires
  \/ \E c \in Slots : ApiResponds(c)
  \/ \E c \in Slots : BodyResolves(c)
  \/ \E c \in Slots : DelayElapses(c)
  \/ \E c \in Slots : LaunchResolves(c)
  \/ \E c \in Slots : PageResolves(c)
  \/ \E c \in Slots : CloseResolves(c)
  \/ \E c \in Slots : DeliveryCompletes(c)
  \/ \E c \in Slots : SendResolves(c)
  \/ Shutdown
  \/ UncaughtError

Spec == Init /\ [][Next]_vars

\* The steps of the pollForUpdates invocation in slot c.
CycleStep(c) ==
  \/ ApiResponds(c)
  \/ BodyResolves(c)
  \/ DelayElapses(c)
  \/ LaunchResolves(c)
  \/ PageResolves(c)
  \/ CloseResolves(c)
  \/ DeliveryCompletes(c)
  \/ SendResolves(c)

\* The event loop runs what is ready: the script body, the interval timer
\* every pollInterval while the process lives, and the continuation of
\* every await that settles.  Signals and uncaught errors come from outside
\* and need not come.
SpecLive ==
  /\ Spec
  /\ WF_vars(Main)
  /\ WF_vars(TimerFires)
  /\ \A c \in Slots : WF_vars(CycleStep(c))


\* ------------------------------------------------ the state store alone ---
\* saveState and loadState on their own: one saveState of any item over
\* whatever an earlier run left in the state file, and the loadState calls
\* that follow it.

\* The longest title saved.
StoreMaxLen == 3

\* The characters of the titles saved: a letter, the two characters
\* JSON.stringify escapes with a backslash, and a line break.
StoreAlphabet == {"a", "\"", "\\", "\n"}

\* The titles saved: as the two channels produce them, trimmed and not empty.
StoreTitles ==
  {t \in UNION {[1..n -> StoreAlphabet] : n \in 1..StoreMaxLen} : Trim(t) = t}

StoreItems ==
  {[title |-> t, link |-> SiteOrigin \o Path_1, date |-> Date_1] : t \in StoreTitles}

StoreInit ==
  /\ proc = "running"
  /\ exitCode = -1
  /\ env = CHOOSE e \in Environments : ConfigValid(EnvOf(e))
  /\ timerArmed = TRUE
  /\ file \in {Absent} \cup StateTexts
  /\ cycles = [c \in Slots |-> Idle]
  /\ notified = {}
  /\ last = NoCalls

\* saveState(data)
StoreSave ==
  /\ last.op = "none"
  /\ \E data \in StoreItems, outcome \in WriteOutcomes :
       /\ file' = saveState(file, data, outcome)
       /\ last' = [NoCalls EXCEPT !.op = "save", !.saved = data, !.wrote = outcome]
  /\ UNCHANGED <<proc, exitCode, env, timerArmed, cycles, notified>>

\* loadState(); op is "load" when the file was read, "loadUnread" when
\* fs.readFileSync threw.
StoreLoad ==
  /\ last.op # "none"
  /\ \E readError \in (IF file = Absent THEN {FALSE} ELSE BOOLEAN) :
       last' = [last EXCEPT !.op = IF readError THEN "loadUnread" ELSE "load",
                            !.loaded = loadState(file, readError)]
  /\ UNCHANGED <<proc, exitCode, env, timerArmed, file, cycles, notified>>

StoreNext == StoreSave \/ StoreLoad

SpecStore == StoreInit /\ [][StoreNext]_vars

\* ------------------------------------------ markup extraction alone ---
\* parsePublicationFromMarkup on its own, on markup of every shape.
MarkupTitles ==
  {Title_Tomato, <<" ">> \o Title_Quoted, <<"a">>, <<"B", " ">>, <<" ">>, NoMatch}

\* The href captured: relative to the site root, absolute (this site and
\* another), relative to the page, none.
MarkupHrefs ==
  {Path_1, Path_2, SiteOrigin \o Path_1, <<"h","t","t","p",":","/","/","x">>,
   <<"p","3">>, NoMatch}

MarkupDates == {Date_1, <<" ">> \o Date_2, NoMatch}

MarkupInputs == [title : MarkupTitles, href : MarkupHrefs, date : MarkupDates]

MarkupInit ==
  /\ proc = "running"
  /\ exitCode = -1
  /\ env = CHOOSE e \in Environments : ConfigValid(EnvOf(e))
  /\ timerArmed = TRUE
  /\ file = Absent
  /\ cycles = [c \in Slots |-> Idle]
  /\ notified = {}
  /\ last = NoCalls

\* parsePublicationFromMarkup(markup)
ParseMarkup ==
  /\ last.op = "none"
  /\ \E markup \in MarkupInputs :
       last' = [NoCalls EXCEPT !.op = "parse", !.input = markup,
                               !.pub = parsePublicationFromMarkup(markup)]
  /\ UNCHANGED <<proc, exitCode, env, timerArmed, file, cycles, notified>>

MarkupNext == ParseMarkup

SpecMarkup == MarkupInit /\ [][MarkupNext]_vars

\* --------------------------------------------- change detection alone ---
\* The comparison of pollForUpdates on its own: one call of pollForUpdates
\* whose fetch returns an item, with an item already in the state file.

\* The longest title and the longest link compared.
KeyMaxLen == 2

\* The characters of the titles and links compared: a letter and the
\* separator of the identity key.
KeyAlphabet == {"a", "|"}

KeyStrings == UNION {[1..n -> KeyAlphabet] : n \in 1..KeyMaxLen}

\* Valid items: title and link are non-empty strings.
KeyItems == [title : KeyStrings, link : KeyStrings, date : {Date_1}]

KeyInit ==
  /\ proc = "running"
  /\ exitCode = -1
  /\ env = CHOOSE e \in Environments : ConfigValid(EnvOf(e))
  /\ timerArmed = TRUE
  /\ file \in {StringifyOf(p) : p \in KeyItems}
  /\ cycles = [c \in Slots |-> Idle]
  /\ notified = {}
  /\ last = NoCalls

\* fetchLatestPublication resolves with an item and pollForUpdates runs on
\* to its end.
KeyPoll ==
  /\ last.op = "none"
  /\ \E publication \in KeyItems : PollAfterFetch(1, NotCalled, publication)
  /\ UNCHANGED <<proc, exitCode, env, timerArmed>>

KeyNext == KeyPoll

SpecKey == KeyInit /\ [][KeyNext]_vars

\* -------------------------------------------------- validation alone ---
\* The script body on its own, started in every environment of a bounded
\* shape.

\* The longest value of NOTIFY_EMAILS.
EnvMaxLen == 3

\* The characters of NOTIFY_EMAILS: a letter, the separator, white space.
EnvAlphabet == {"a", ",", " "}

ConfigEnvironments ==
  [RESEND_API_KEY : {Undefined, <<"k">>},
   NOTIFY_EMAILS : {Undefined, <<>>}
                     \cup UNION {[1..n -> EnvAlphabet] : n \in 1..EnvMaxLen},
   SENDER_EMAIL : {<<>>, <<"s">>}]

ConfigInit ==
  /\ proc = "starting"
  /\ exitCode = -1
  /\ env \in ConfigEnvironments
  /\ timerArmed = FALSE
  /\ file = Absent
  /\ cycles = [c \in Slots |-> Idle]
  /\ notified = {}
  /\ last = NoCalls

ConfigNext == Main

SpecConfig == ConfigInit /\ [][ConfigNext]_vars

\* ------------------------------------------------------------- claims ----
\* A value that is a publication object (not null, not a rejection, not the
\* mark of a function that was not called).
IsPublication(x) == x \notin {Null, Thrown, NotCalled}

\* The identity key as the specification defines it: title, "|", link.
KeyOf(item) == item.title \o <<"|">> \o item.link

\* The relevance filter as the specification defines it: the title, in lower
\* case, contains one of the keywords.
MatchesKeyword(title) == \E k \in Keywords : Includes(ToLowerCase(title), k)

\* The step just taken fetched a publication and loaded the stored state.
Compared == last.op = "poll" /\ IsPublication(last.pub) /\ last.loaded # NotCalled

\* The publication of the step just taken differs from the stored state it
\* loaded (no stored state, or another identity key).
Differs ==
  last.loaded = Null
  \/ (IsPublication(last.loaded) /\ KeyOf(last.pub) # KeyOf(last.loaded))

C2_IdentityStability ==
  (/\ Compared
   /\ IsPublication(last.loaded)
   /\ last.pub.title = last.loaded.title
   /\ last.pub.link = last.loaded.link
   /\ last.pub.date # last.loaded.date)
  => (/\ last.sent = 0
      /\ last.saved = NotCalled
      /\ ~last.caught
      /\ \A c \in Slots : cycles[c].pc = "send" => cycles[c].pub # last.pub)

\* C2 witness: a cycle compared an item with a stored item that differs from
\* it in the date alone.
C2_Witness ==
  /\ Compared
  /\ IsPublication(last.loaded)
  /\ last.pub.title = last.loaded.title
  /\ last.pub.link = last.loaded.link
  /\ last.pub.date # last.loaded.date

\* The class the specification's rule gives the comparison just made.
Classification ==
  IF last.loaded = Null THEN "FirstObservation"
  ELSE IF KeyOf(last.pub) # KeyOf(last.loaded) THEN "Changed"
  ELSE "Unchanged"

\* C3: the cycle treats the item as new (it calls sendNotification or
\* saveState with it) exactly when the rule classifies it FirstObservation
\* (no stored state) or Changed (the identity keys differ), and calls
\* neither when it is Unchanged; loadState gives null or an item.
C3_ClassificationRule ==
  Compared =>
    /\ last.loaded # Thrown
    /\ ~last.caught
    /\ (Classification \in {"FirstObservation", "Changed"})
         <=> (last.sent = 1 \/ last.saved = last.pub)
    /\ (Classification = "Unchanged") <=> (last.sent = 0 /\ last.saved = NotCalled)

\* C3 witness: the stored item and the fetched item have the same title and
\* different links, and the cycle saved the fetched item as new.
C3_Witness ==
  /\ Compared
  /\ IsPublication(last.loaded)
  /\ last.pub.title = last.loaded.title
  /\ last.pub.link # last.loaded.link
  /\ last.saved = last.pub

\* C4: when the state file is absent and a cycle fetches a valid item,
\* loadState gives null and the item is taken as a first observation:
\* sendNotification is called for it exactly when its title matches a
\* keyword, and saveState is called with it (at once when nothing is sent,
\* when sendNotification has settled otherwise); a write that succeeds
\* leaves a state file that loads as that item.
C4_FirstRun ==
  [][ /\ (file = Absent /\ last'.op = "poll" /\ IsPublication(last'.pub)) =>
           /\ last'.loaded = Null
           /\ ~last'.caught
           /\ IF MatchesKeyword(last'.pub.title)
                THEN /\ last'.sent = 1
                     /\ \E c \in Slots : /\ cycles'[c].pc = "send"
                                         /\ cycles'[c].pub = last'.pub
                ELSE /\ last'.sent = 0
                     /\ last'.saved = last'.pub
      /\ (file = Absent /\ last'.op = "send") => last'.saved = last'.pub
      /\ (file = Absent /\ last'.saved # NotCalled /\ last'.wrote = "ok") =>
           loadState(file', FALSE) = last'.saved
    ]_vars

\* C4 witness: with no state file, a cycle fetched an item, found no stored
\* state and called sendNotification for it.
C4_Witness ==
  /\ file = Absent
  /\ Compared
  /\ last.loaded = Null
  /\ last.sent = 1

\* C5: a cycle whose item is new and matches no keyword calls saveState with
\* the item and does not call sendNotification; one whose item is new and
\* matches a keyword calls sendNotification and, when that has settled,
\* saveState with the same item.  Only items that match a keyword are ever
\* sent.
C5_RelevanceFilter ==
  /\ (Compared /\ Differs) =>
       IF MatchesKeyword(last.pub.title)
       THEN /\ last.sent = 1
            /\ last.saved = NotCalled
            /\ \E c \in Slots : cycles[c].pc = "send" /\ cycles[c].pub = last.pub
       ELSE /\ last.sent = 0
            /\ last.saved = last.pub
  /\ last.op = "send" => (last.saved = last.pub /\ MatchesKeyword(last.pub.title))
  /\ \A c \in Slots : cycles[c].pc = "send" => MatchesKeyword(cycles[c].pub.title)

\* C5 witness: sendNotification settled for a keyword item and saveState was
\* called with it.
C5_Witness ==
  last.op = "send" /\ last.saved = last.pub /\ MatchesKeyword(last.pub.title)

\* C6: within one fetchLatestPublication call the scraping channel is started
\* at most once, and it has been started exactly when maxRetries+1 API calls
\* have failed; every API call completed while the fetch goes on has failed
\* (a success ends the fetch at once); at most one attempt is outstanding.
C6_RetryThenFallback ==
  \A c \in Slots : cycles[c].pc \in FetchPcs =>
    /\ cycles[c].apiCalls <= maxRetries + 1
    /\ cycles[c].scrapeCalls <= 1
    /\ (cycles[c].scrapeCalls = 1) <=> (cycles[c].apiFails = maxRetries + 1)
    /\ (cycles[c].scrapeCalls = 1) <=> (cycles[c].pc \in {"launch", "page", "close"})
    /\ cycles[c].apiCalls - cycles[c].apiFails = (IF cycles[c].pc \in {"api", "body"} THEN 1 ELSE 0)

\* C6 witness: all maxRetries+1 API calls failed and the scraping channel has
\* been started.
C6_Witness ==
  \E c \in Slots : /\ cycles[c].pc = "launch"
                   /\ cycles[c].apiFails = maxRetries + 1
                   /\ cycles[c].scrapeCalls = 1

\* C7: when the scraping channel returns an item, fetchLatestPublication
\* returns exactly that item, and it returns null only when the scraping
\* channel returned null.
C7_FallbackRecovers ==
  last.op = "poll" =>
    /\ IsPublication(last.scraped) => (last.pub = last.scraped /\ ~last.caught)
    /\ last.pub = Null => last.scraped = Null

\* C7 witness: the scraping channel returned an item and pollForUpdates went
\* on with it.
C7_Witness ==
  last.op = "poll" /\ IsPublication(last.scraped) /\ last.pub = last.scraped

\* C8 (as claimed): fetchLatestPublication returns an item or null and never
\* throws to pollForUpdates.
C8_FetchNeverThrows ==
  last.op = "poll" => last.pub # Thrown

\* The text of a state file that exists and is not the JSON text of an item.
Corrupted(text) ==
  text # Absent /\ \A p \in Publications : text # StringifyTable[p]

\* C9: loadState never throws; for a state file that exists and does not
\* parse it returns null; and a cycle whose loadState returned null (the
\* file unparseable or unreadable) takes the item as a first observation
\* (sendNotification or saveState is called with it) and does not fail.
C9_CorruptedIsAbsent ==
  [][ (last'.op = "poll" /\ last'.loaded # NotCalled) =>
        /\ last'.loaded # Thrown
        /\ ~last'.caught
        /\ Corrupted(file) => last'.loaded = Null
        /\ last'.loaded = Null => (last'.sent = 1 \/ last'.saved = last'.pub)
    ]_vars

\* C9 witness: the state file holds a text that does not parse, and a cycle
\* that loaded it got null and called sendNotification for its item.
C9_Witness ==
  /\ Corrupted(file)
  /\ Compared
  /\ last.loaded = Null
  /\ last.sent = 1

\* C10: a saveState(item) whose write succeeds, followed by a loadState that
\* reads the file, yields an object equal to the item in title, link and
\* date, whatever the state file held before the save; and the file then
\* holds the text of that one item alone.
C10_RoundTrip ==
  /\ (last.op = "load" /\ last.wrote = "ok") =>
       /\ IsPublication(last.loaded)
       /\ last.loaded.title = last.saved.title
       /\ last.loaded.link = last.saved.link
       /\ last.loaded.date = last.saved.date
  /\ (last.op \in {"save", "load", "loadUnread"} /\ last.wrote = "ok") =>
       file = JSONStringify(last.saved)

\* C10 witness: an item whose title holds a quote and a backslash was saved
\* and loaded back.
C10_Witness ==
  /\ last.op = "load"
  /\ last.wrote = "ok"
  /\ \E i, j \in 1..Len(last.saved.title) :
       last.saved.title[i] = "\"" /\ last.saved.title[j] = "\\"
  /\ last.loaded = last.saved

\* A step of a cycle in which a phase failed: the fetch gave nothing or
\* threw, loadState or the comparison threw, the delivery failed, or the
\* write of the state file failed.
PhaseFailed ==
  \/ last.caught
  \/ last.op = "poll" /\ last.pub = Null
  \/ last.delivery \in {"error", "rejected"}
  \/ last.wrote \in {"EACCES", "ENOSPC0", "ENOSPC1"}

C12_StrictlySequential ==
  Cardinality({c \in Slots : cycles[c].pc # "idle"}) <= 1

\* C13 (as claimed): while an invocation is between its loadState and its
\* saveState (it awaits sendNotification), no step of another invocation
\* calls loadState or saveState.
C13_NoInterleavedStateAccess ==
  [][ \A c \in Slots :
        (cycles[c].pc = "send" /\ cycles'[c].pc = "send") =>
          (last'.loaded = NotCalled /\ last'.saved = NotCalled)
    ]_vars

\* C14 (as claimed): a step leaves the state file as it was or holding the
\* complete text of the item saveState was called with.
C14_AtomicSave ==
  [][ \/ file' = file
      \/ last'.saved # NotCalled /\ file' = StringifyOf(last'.saved)
    ]_vars

\* C15 (as claimed): the process has exited only because the configuration
\* was found invalid at startup or because a signal arrived.
C15_ExitsOnlyOnConfigOrSignal ==
  proc = "exited" =>
    \/ exitCode = 1 /\ ~ConfigValid(EnvOf(env))
    \/ last.op \in Signals

\* A required variable is not set, or set to the empty string.
RequiredMissing(penv) ==
  \E v \in {penv.RESEND_API_KEY, penv.NOTIFY_EMAILS, penv.SENDER_EMAIL} :
    v \in {Undefined, <<>>}

\* C16: once the script body has run in an environment that lacks a required
\* variable, the process has exited with code 1, the interval timer is not
\* armed, and pollForUpdates was never called; and code 1 is given only
\* there.
C16_ConfigValidation ==
  /\ (RequiredMissing(env) /\ proc # "starting") =>
       /\ proc = "exited"
       /\ exitCode = 1
       /\ ~timerArmed
       /\ \A c \in Slots : cycles[c] = Idle
       /\ notified = {}
       /\ last = NoCalls
  /\ exitCode = 1 =>
       /\ RequiredMissing(env)
       /\ \A c \in Slots : cycles[c] = Idle
       /\ last = NoCalls

\* C16 witness: the process was started without SENDER_EMAIL and has exited
\* with code 1.
C16_Witness ==
  /\ env.SENDER_EMAIL = <<>>
  /\ proc = "exited"
  /\ exitCode = 1

\* C17: once SIGINT or SIGTERM has been handled the process has exited with
\* code 0, the interval timer is cleared, and neither the timer nor the
\* script body can start a cycle; both signals leave the same state.
C17_GracefulShutdown ==
  last.op \in Signals =>
    /\ proc = "exited"
    /\ exitCode = 0
    /\ ~timerArmed
    /\ ~ENABLED TimerFires
    /\ ~ENABLED Main
    /\ \A c \in Slots : ~ENABLED CycleStep(c)

\* C17 witness: SIGTERM was handled after the process had called
\* sendNotification.
C17_Witness ==
  /\ last.op = "SIGTERM"
  /\ proc = "exited"
  /\ exitCode = 0
  /\ notified # {}

\* C18 (as claimed): code 0 is given exactly on a shutdown by signal, code 1
\* exactly on a configuration found invalid at startup.
C18_ExitCodes ==
  proc = "exited" =>
    /\ exitCode = 0 <=> last.op \in Signals
    /\ exitCode = 1 <=> ~ConfigValid(EnvOf(env))

\* C19 (as claimed): the process eventually terminates itself, without a
\* signal.
C19_EventuallyExits ==
  <>(proc = "exited")

\* pollForUpdates is called in the step and occupies slot c.
Started(c) == cycles[c].pc = "idle" /\ cycles'[c].pc # "idle"

\* C20: the step in which the script body passes the configuration check
\* calls pollForUpdates exactly once (its first API request is issued) and
\* arms the interval timer; every other call of pollForUpdates is made by
\* the interval timer, one per firing.
C20_ImmediateFirstCycle ==
  [][ /\ (proc = "starting" /\ proc' = "running") =>
           /\ Cardinality({c \in Slots : Started(c)}) = 1
           /\ \A c \in Slots : Started(c) =>
                (cycles'[c].pc = "api" /\ cycles'[c].apiCalls = 1)
           /\ timerArmed'
           /\ last'.op # "timer"
      /\ (proc # "starting" /\ \E c \in Slots : Started(c)) =>
           /\ proc = "running"
           /\ timerArmed
           /\ last'.op = "timer"
           /\ Cardinality({c \in Slots : Started(c)}) = 1
      /\ (proc = "starting" /\ proc' # "running") =>
           ~ \E c \in Slots : Started(c)
    ]_vars

\* C20 witness: the script body has just run: one invocation is awaiting its
\* first API response, the timer is armed and has not fired.
C20_Witness ==
  /\ proc = "running"
  /\ timerArmed
  /\ last = NoCalls
  /\ Cardinality({c \in Slots : cycles[c].pc # "idle"}) = 1
  /\ \E c \in Slots : cycles[c].pc = "api" /\ cycles[c].apiCalls = 1 /\ cycles[c].apiFails = 0

\* C21: when resend.emails.send fails (an error object or a rejection) the
\* step in which sendNotification settles does not reach the catch block of
\* pollForUpdates, does not call sendNotification again, calls saveState
\* with the item, ends the invocation, and leaves the process running; when
\* the write succeeds the state file holds the item.
C21_DeliveryFailure ==
  (last.op = "send" /\ last.delivery \in {"error", "rejected"}) =>
    /\ ~last.caught
    /\ last.sent = 0
    /\ last.saved = last.pub
    /\ proc = "running"
    /\ last.wrote = "ok" => loadState(file, FALSE) = last.pub

\* C21 witness: the delivery was rejected and the state file holds the item.
C21_Witness ==
  /\ last.op = "send"
  /\ last.delivery = "rejected"
  /\ last.wrote = "ok"
  /\ file = StringifyOf(last.pub)

\* C22 (as claimed): a step in which the write of saveState fails does not
\* reach the catch block, ends the invocation, and leaves the state file as
\* it was.
C22_FailedWriteKeepsState ==
  [][ last'.wrote \in {"EACCES", "ENOSPC0", "ENOSPC1"} =>
        /\ ~last'.caught
        /\ proc' = "running"
        /\ file' = file
    ]_vars

\* An item whose title and link are non-empty strings.
HasTitleAndLink(item) ==
  /\ item.title \notin {Undefined, NoMatch, <<>>}
  /\ item.link \notin {Undefined, NoMatch, <<>>}

\* What parsePublicationFromMarkup returns for the markups of the model.
ParsedMarkups == {parsePublicationFromMarkup(m) : m \in Markups}

\* C23: every item a channel returns, every item fetchLatestPublication
\* returns, and every item given to sendNotification or saveState has a
\* title and a link that are non-empty strings.
C23_ValidItems ==
  /\ \A item \in ParsedMarkups : item # Null => HasTitleAndLink(item)
  /\ \A item \in {last.scraped, last.pub, last.saved} :
       IsPublication(item) => HasTitleAndLink(item)
  /\ \A c \in Slots :
       /\ IsPublication(cycles[c].ret) => HasTitleAndLink(cycles[c].ret)
       /\ cycles[c].pc = "send" => HasTitleAndLink(cycles[c].pub)

\* C23 witness: the scraping channel returned an item although the page also
\* can show an article without title or link, and the item was saved.
C23_Witness ==
  /\ last.op = "poll"
  /\ IsPublication(last.scraped)
  /\ last.saved = last.scraped
  /\ \E a \in Articles : EvalArticle(a) = Null

\* C24: a cycle that fetches an item while the state file holds the text of
\* an item with the same identity key, and reads that file, calls neither
\* sendNotification nor saveState and leaves the state file as it is.
C24_NoDuplicates ==
  [][ ( /\ last'.op = "poll"
        /\ IsPublication(last'.pub)
        /\ last'.loaded \notin {NotCalled, Null}
        /\ \E X \in Publications :
             file = StringifyTable[X] /\ KeyOf(X) = KeyOf(last'.pub) ) =>
        /\ last'.sent = 0
        /\ last'.saved = NotCalled
        /\ ~last'.caught
        /\ file' = file
        /\ notified' = notified
        /\ \A c \in Slots : cycles'[c].pc = "send" => cycles[c].pc = "send"
    ]_vars

\* C24 witness: the fetched item has the identity key of the stored one and
\* another date; nothing was sent or saved.
C24_Witness ==
  /\ Compared
  /\ IsPublication(last.loaded)
  /\ KeyOf(last.loaded) = KeyOf(last.pub)
  /\ last.loaded.date # last.pub.date
  /\ file = StringifyOf(last.loaded)
  /\ last.sent = 0
  /\ last.saved = NotCalled

\* C25: the step in which fetchLatestPublication returns null calls neither
\* loadState, sendNotification nor saveState, does not reach the catch
\* block, ends the invocation, and changes neither the state file nor the
\* process.
C25_FailedFetchChangesNothing ==
  [][ (last'.op = "poll" /\ last'.pub = Null) =>
        /\ last'.loaded = NotCalled
        /\ last'.sent = 0
        /\ last'.saved = NotCalled
        /\ ~last'.caught
        /\ file' = file
        /\ notified' = notified
        /\ proc' = "running"
        /\ timerArmed' = timerArmed
        /\ \A c \in Slots : cycles'[c].pc = "send" => cycles[c].pc = "send"
    ]_vars

\* C25 witness: the API calls and the scraping channel all failed.
C25_Witness ==
  /\ last.op = "poll"
  /\ last.pub = Null
  /\ last.scraped = Null
  /\ last.loaded = NotCalled

\* C26: a wait follows a failed API call only: rateLimitDelay after the
\* first call, rateLimitDelay * k after retry k for 1 <= k < maxRetries;
\* after retry maxRetries the scraping channel is started at once; a wait
\* ends in the next retry.
C26_BackoffSchedule ==
  [][ \A c \in Slots :
        /\ (cycles[c].pc # "delay" /\ cycles'[c].pc = "delay") =>
             /\ cycles[c].pc \in {"api", "body"}
             /\ cycles'[c].apiFails = cycles[c].apiFails + 1
             /\ cycles[c].attempt < maxRetries
             /\ cycles'[c].delay = (IF cycles[c].attempt = 0 THEN rateLimitDelay
                                    ELSE rateLimitDelay * cycles[c].attempt)
        /\ (cycles[c].pc \in {"api", "body"} /\ cycles[c].attempt = maxRetries
              /\ cycles'[c].apiFails = cycles[c].apiFails + 1) =>
             (cycles'[c].pc = "launch" /\ cycles'[c].delay = 0)
        /\ (cycles[c].pc \in {"api", "body"} /\ cycles[c].attempt < maxRetries
              /\ cycles'[c].apiFails = cycles[c].apiFails + 1) =>
             cycles'[c].pc = "delay"
        /\ (cycles[c].pc = "delay" /\ cycles'[c] # cycles[c] /\ proc' = "running") =>
             /\ cycles'[c].pc = "api"
             /\ cycles'[c].attempt = cycles[c].attempt + 1
             /\ cycles'[c].delay = 0
        /\ cycles'[c].pc # "delay" => cycles'[c].delay = 0
    ]_vars

\* C26 witness: retry 2 failed and the wait of twice rateLimitDelay is on.
C26_Witness ==
  \E c \in Slots : /\ cycles[c].pc = "delay"
                   /\ cycles[c].attempt = 2
                   /\ cycles[c].delay = 2 * rateLimitDelay

\* The stored state is not the item: the state file does not load as an
\* item with the item's identity key.
NotAdvancedTo(item) ==
  LET stored == loadState(file, FALSE)
  IN stored = Null \/ KeyOf(stored) # KeyOf(item)

\* C27 (as claimed): a signal is never handled while the notification of an
\* invocation in flight has been delivered and the stored state has not been
\* advanced to its item.
C27_NoExitBetweenDeliveryAndSave ==
  [][ last'.op \in Signals =>
        ~ \E c \in Slots : /\ cycles[c].pc = "send"
                           /\ cycles[c].delivered
                           /\ NotAdvancedTo(cycles[c].pub)
    ]_vars

\* C28 (as claimed): whenever an invocation awaits the request or the
\* response body of an API call its abort timer is armed, and a fetch makes
\* at most maxRetries+1 API calls and one scraping call.
C28_AttemptsBounded ==
  \A c \in Slots :
    /\ cycles[c].pc \in {"api", "body"} => AbortTimerArmed(c)
    /\ cycles[c].apiCalls <= maxRetries + 1
    /\ cycles[c].scrapeCalls <= 1

\* C29: in a step of a cycle loadState is called only with a fetched item at
\* hand, sendNotification at most once and only for an item loaded state was
\* compared with and found different from, saveState only for such an item;
\* a step that calls sendNotification does not call saveState, which the
\* step in which sendNotification has settled calls, without loadState or
\* sendNotification being called again; a step that saves ends the cycle.
C29_OrderAndCounts ==
  /\ last.op = "poll" =>
       /\ last.loaded # NotCalled => IsPublication(last.pub)
       /\ last.sent \in {0, 1}
       /\ last.sent = 1 =>
            /\ Compared /\ Differs
            /\ last.saved = NotCalled
            /\ Cardinality({c \in Slots : cycles[c].pc = "send" /\ cycles[c].pub = last.pub}) >= 1
       /\ last.saved # NotCalled =>
            /\ Compared /\ Differs
            /\ last.sent = 0
            /\ last.saved = last.pub
  /\ last.op = "send" =>
       /\ last.loaded = NotCalled
       /\ last.sent = 0
       /\ last.saved = last.pub
       /\ last.delivery # "none"
  /\ last.op \notin {"poll", "send"} =>
       /\ last.loaded = NotCalled
       /\ last.sent = 0
       /\ last.saved = NotCalled

\* C29 witness: sendNotification settled and the step called saveState, and
\* neither loadState nor sendNotification.
C29_Witness ==
  /\ last.op = "send"
  /\ last.delivery = "delivered"
  /\ last.loaded = NotCalled
  /\ last.sent = 0
  /\ last.saved = last.pub
  /\ last.wrote = "ok"

\* s begins with prefix.
HasPrefix(s, prefix) ==
  Len(s) >= Len(prefix) /\ SubSeq(s, 1, Len(prefix)) = prefix

\* An absolute http(s) URL.
IsAbsoluteUrl(s) ==
  \/ HasPrefix(s, <<"h","t","t","p","s",":","/","/">>)
  \/ HasPrefix(s, <<"h","t","t","p",":","/","/">>)

\* C30 (as claimed): the link of an item extracted from markup is the href
\* itself when the href is an absolute URL, and the href resolved against
\* the site's origin when it is relative to the site root.
C30_LinkAbsolute ==
  (last.op = "parse" /\ IsPublication(last.pub)) =>
    /\ IsAbsoluteUrl(last.input.href) => last.pub.link = last.input.href
    /\ HasPrefix(last.input.href, <<"/">>) => last.pub.link = SiteOrigin \o last.input.href

\* C31 (as claimed): an item whose title or link differs from the stored
\* item's is always classified as changed (it is saved), a separator
\* character in a field included.
C31_KeyInjective ==
  (/\ Compared
   /\ IsPublication(last.loaded)
   /\ (last.pub.title # last.loaded.title \/ last.pub.link # last.loaded.link))
  => (last.sent = 1 \/ last.saved = last.pub)

\* The `to` field sendNotification gives to resend.emails.send.
Recipients == EnvOf(env).notifyEmails

\* C33 (as claimed): once validation has passed and polling has begun, the
\* recipient list is not empty and none of its addresses is the empty
\* string, whatever the value of NOTIFY_EMAILS.
C33_RecipientsValid ==
  proc = "running" =>
    /\ Len(Recipients) > 0
    /\ \A i \in 1..Len(Recipients) : Recipients[i] # <<>>

\* The persisted state: what loadState returns for the state file.
Persisted(f) == loadState(f, FALSE)

\* The step just taken ended a call of pollForUpdates whose fetch returned an
\* item, and no write of the state file failed in it.
CycleCompletedWithItem(l) ==
  /\ \/ l.op = "send"
     \/ (l.op = "poll" /\ IsPublication(l.pub) /\ l.sent = 0)
  /\ ~l.caught
  /\ l.wrote \in {"none", "ok"}

\* The persisted state has the identity key of the item fetched.
TracksLatest ==
  CycleCompletedWithItem(last) =>
    /\ IsPublication(Persisted(file))
    /\ KeyOf(Persisted(file)) = KeyOf(last.pub)

\* C32 (as claimed): when a cycle that fetched an item completes without a
\* save failure, the persisted state has the identity key of that item; and
\* the persisted state changes only in the step that completes such a
\* cycle.
C32_StateTracksLatest ==
  [][ /\ TracksLatest'
      /\ Persisted(file') # Persisted(file) => CycleCompletedWithItem(last')
    ]_vars

\* C34 (as claimed): when fetchLatestPublicationViaScraping returns or
\* throws, the browser it launched is closed; and an invocation of
\* pollForUpdates holds an open browser only inside that call.
C34_BrowserClosed ==
  /\ last.scraped # NotCalled => last.browser # "open"
  /\ \A c \in Slots : cycles[c].browserOpen => cycles[c].pc \in {"page", "close"}

====
